---- MODULE Spec2Model ----
(***************************************************************************)
(* A model of timething's alignment persistence (src/timething/utils.py):  *)
(* alignment_meta, write_alignment, read_alignment and alignment_filename, *)
(* over a small file store.                                                *)
(*                                                                         *)
(* Representation.                                                         *)
(*   - A path string (the `id` argument, the root) is a sequence of        *)
(*     one-character strings; a pathlib path is [anchor, parts].           *)
(*   - A data string (label, recognised, Alignment.id) is a sequence of    *)
(*     code points; on disk it is the sequence of its UTF-8 bytes.         *)
(*   - A float is an exact rational <<n, d>>, d > 0, in lowest terms: the  *)
(*     arithmetic of the rescaling is carried out exactly, so "equal up to *)
(*     rounding" is equality of rationals.                                 *)
(*   - timething/align.py (Alignment, Segment and the two rescaling        *)
(*     methods) is modelled from section 4.1 of the specification.         *)
(***************************************************************************)
EXTENDS Integers, Sequences, FiniteSets, TLC

VARIABLES locale, dirs, files, last, w, probe

vars == <<locale, dirs, files, last, w, probe>>

(* ------------------------------ bounds -------------------------------- *)

MaxIdLen == 3

MaxFrames == 3

MaxSamples == 3

MaxRate == 2

(* ------------------------------ helpers ------------------------------- *)

SeqsUpTo(S, n) == UNION {[1..k -> S] : k \in 0..n}

Last(s) == s[Len(s)]

Front(s) == SubSeq(s, 1, Len(s) - 1)

NoValue == [none |-> TRUE]

(* --------------------- pathlib.PurePosixPath -------------------------- *)

PathChars == {"a", "/", "."}

\* ".json", the suffix alignment_filename appends
JsonSuffix == <<".", "j", "s", "o", "n">>

RECURSIVE LeadingSlashes(_)
LeadingSlashes(s) ==
    IF s # <<>> /\ Head(s) = "/" THEN 1 + LeadingSlashes(Tail(s)) ELSE 0

\* a finished component is kept unless it is empty or "."
FlushPart(acc, cur) ==
    IF cur = <<>> \/ cur = <<".">> THEN acc ELSE Append(acc, cur)

RECURSIVE SplitParts(_, _, _)
SplitParts(s, cur, acc) ==
    IF s = <<>> THEN FlushPart(acc, cur)
    ELSE IF Head(s) = "/" THEN SplitParts(Tail(s), <<>>, FlushPart(acc, cur))
    ELSE SplitParts(Tail(s), Append(cur, Head(s)), acc)

\* PurePosixPath(s): exactly two leading slashes are kept as the anchor "//",
\* any other number of them is "/"; empty and "." components are dropped
ParsePath(s) ==
    LET n == LeadingSlashes(s)
    IN  [anchor |-> IF n = 0 THEN "" ELSE IF n = 2 THEN "//" ELSE "/",
         parts  |-> SplitParts(s, <<>>, <<>>)]

\* path / s: an absolute right operand replaces the left one
JoinPath(path, s) ==
    LET o == ParsePath(s)
    IN  IF o.anchor # "" THEN o
        ELSE [anchor |-> path.anchor, parts |-> path.parts \o o.parts]

\* path.name: the last component, "" when there is none
PathName(path) == IF path.parts = <<>> THEN <<>> ELSE Last(path.parts)

\* path.parent: the path without its last component; itself when there is none
PathParent(path) ==
    IF path.parts = <<>> THEN path
    ELSE [anchor |-> path.anchor, parts |-> Front(path.parts)]

\* a variant that keeps only the last component of the id
alignment_filename_flat(path, id) ==
    LET filename == JoinPath(path, id)
    IN  JoinPath(path, PathName(filename) \o JsonSuffix)

alignment_filename(path, id) ==
    LET filename == JoinPath(path, id)
    IN  JoinPath(PathParent(filename), PathName(filename) \o JsonSuffix)

(* ---------------------------- rationals ------------------------------- *)

RECURSIVE Gcd(_, _)
Gcd(a, b) == IF b = 0 THEN a ELSE Gcd(b, a % b)

Abs(x) == IF x < 0 THEN -x ELSE x

\* n/d in lowest terms with a positive denominator (d # 0)
Rat(n, d) ==
    LET g == Gcd(Abs(n), Abs(d))
        s == IF d < 0 THEN -1 ELSE 1
    IN  <<(s * n) \div g, (s * d) \div g>>

RatInt(n) == <<n, 1>>

RatMul(x, y) == Rat(x[1] * y[1], x[2] * y[2])

\* x / y, y # 0
RatDiv(x, y) == Rat(x[1] * y[2], x[2] * y[1])

(* ------------------- text on disk: UTF-8 and the locale --------------- *)

RECURSIVE Utf8Encode(_)
\* str.encode("utf8") for code points below U+0800
Utf8Encode(str) ==
    IF str = <<>> THEN <<>>
    ELSE LET c == Head(str)
         IN  (IF c < 128 THEN <<c>> ELSE <<192 + (c \div 64), 128 + (c % 64)>>)
             \o Utf8Encode(Tail(str))

RECURSIVE Utf8Decode(_)
\* bytes.decode("utf8"), on the output of Utf8Encode
Utf8Decode(bytes) ==
    IF bytes = <<>> THEN <<>>
    ELSE IF Head(bytes) < 128
         THEN <<Head(bytes)>> \o Utf8Decode(Tail(bytes))
    ELSE <<(Head(bytes) - 192) * 64 + (bytes[2] - 128)>>
         \o Utf8Decode(Tail(Tail(bytes)))

\* bytes.decode("latin-1"): every byte is the code point of the same number
Latin1Decode(bytes) == bytes

\* the encodings open(path, "r") may use: the platform's locale encoding
Locales == {"utf-8", "latin-1"}

DecodeText(bytes, enc) ==
    IF enc = "utf-8" THEN Utf8Decode(bytes) ELSE Latin1Decode(bytes)

(* ------------------------------ errors -------------------------------- *)

NoError == [kind |-> "none", arg |-> ""]

Error(kind, arg) == [kind |-> kind, arg |-> arg]

Ok(v) == [raised |-> NoError, value |-> v]

Raise(kind, arg) == [raised |-> Error(kind, arg), value |-> NoValue]

(* ------------- align.Alignment, align.Segment, rescaling -------------- *)

ScalarFields ==
    <<"id", "recognised", "n_model_frames", "n_audio_samples",
      "sampling_rate", "partition_score">>

RecordFields ==
    {"id", "n_model_frames", "n_audio_samples", "sampling_rate",
     "partition_score", "recognised", "chars", "chars_cleaned", "words",
     "words_cleaned"}

CollFields == {"chars", "chars_cleaned", "words", "words_cleaned"}

StringFields == {"id", "recognised"}

SegmentKeys == {"label", "start", "end", "score"}

Segment(start, end, label, score) ==
    [label |-> label, start |-> start, end |-> end, score |-> score]

Alignment(id, log_probs, recognised, trellis, path, chars_cleaned, chars, words_cleaned, words, n_model_frames, n_audio_samples, sampling_rate, partition_score) ==
    [id |-> id, log_probs |-> log_probs, recognised |-> recognised,
     trellis |-> trellis, path |-> path, chars_cleaned |-> chars_cleaned,
     chars |-> chars, words_cleaned |-> words_cleaned, words |-> words,
     n_model_frames |-> n_model_frames, n_audio_samples |-> n_audio_samples,
     sampling_rate |-> sampling_rate, partition_score |-> partition_score]

\* a zero among the three values the rescaling ratio is made of
Degenerate(al) ==
    al.n_model_frames = 0 \/ al.n_audio_samples = 0 \/ al.sampling_rate = 0

\* n_frames * n_audio_samples / sampling_rate / n_model_frames
model_frames_to_seconds(al, n_frames) ==
    IF Degenerate(al) THEN Raise("DegenerateAlignment", "")
    ELSE Ok(RatDiv(RatDiv(RatMul(n_frames, RatInt(al.n_audio_samples)),
                          RatInt(al.sampling_rate)),
                   RatInt(al.n_model_frames)))

\* n_seconds * n_model_frames * sampling_rate / n_audio_samples
seconds_to_model_frames(al, n_seconds) ==
    IF Degenerate(al) THEN Raise("DegenerateAlignment", "")
    ELSE Ok(RatDiv(RatMul(RatMul(n_seconds, RatInt(al.n_model_frames)),
                          RatInt(al.sampling_rate)),
                   RatInt(al.n_audio_samples)))

(* --------------------------- alignment_meta --------------------------- *)

\* alignment_meta.rescale
meta_rescale(alignment, n_model_frames) ==
    model_frames_to_seconds(alignment, n_model_frames)

\* one entry of the list comprehension: the dict's values are evaluated in
\* the order label, start, end, score
meta_entry(alignment, segment) ==
    LET s == meta_rescale(alignment, segment.start)
        e == meta_rescale(alignment, segment.end)
    IN  IF s.raised # NoError THEN s
        ELSE IF e.raised # NoError THEN e
        ELSE Ok([label |-> segment.label, start |-> s.value,
                 end |-> e.value, score |-> segment.score])

RECURSIVE meta_alignments_reversed(_, _)
\* a variant that emits the entries last segment first
meta_alignments_reversed(alignment, segments) ==
    IF segments = <<>> THEN Ok(<<>>)
    ELSE LET x == meta_entry(alignment, Last(segments))
             r == meta_alignments_reversed(alignment, Front(segments))
         IN  IF x.raised # NoError THEN x
             ELSE IF r.raised # NoError THEN r
             ELSE Ok(<<x.value>> \o r.value)

RECURSIVE meta_alignments(_, _)
\* alignment_meta.alignments: one entry per segment, in the order given; the
\* first rescale that raises ends the comprehension
meta_alignments(alignment, segments) ==
    IF segments = <<>> THEN Ok(<<>>)
    ELSE LET x == meta_entry(alignment, Head(segments))
             r == meta_alignments(alignment, Tail(segments))
         IN  IF x.raised # NoError THEN x
             ELSE IF r.raised # NoError THEN r
             ELSE Ok(<<x.value>> \o r.value)

\* a variant that also puts a raw array into the record
alignment_meta_with_trellis(alignment) ==
    LET c  == meta_alignments(alignment, alignment.chars)
        cc == meta_alignments(alignment, alignment.chars_cleaned)
        wd == meta_alignments(alignment, alignment.words)
        wc == meta_alignments(alignment, alignment.words_cleaned)
    IN  IF c.raised # NoError THEN c
        ELSE IF cc.raised # NoError THEN cc
        ELSE IF wd.raised # NoError THEN wd
        ELSE IF wc.raised # NoError THEN wc
        ELSE Ok([id |-> alignment.id,
                 n_model_frames |-> alignment.n_model_frames,
                 n_audio_samples |-> alignment.n_audio_samples,
                 sampling_rate |-> alignment.sampling_rate,
                 partition_score |-> alignment.partition_score,
                 recognised |-> alignment.recognised,
                 trellis |-> alignment.trellis,
                 chars |-> c.value, chars_cleaned |-> cc.value,
                 words |-> wd.value, words_cleaned |-> wc.value])

\* alignment_meta: the dict display evaluates chars, chars_cleaned, words,
\* words_cleaned in that order; nothing checks the metadata beforehand
alignment_meta(alignment) ==
    LET c  == meta_alignments(alignment, alignment.chars)
        cc == meta_alignments(alignment, alignment.chars_cleaned)
        wd == meta_alignments(alignment, alignment.words)
        wc == meta_alignments(alignment, alignment.words_cleaned)
    IN  IF c.raised # NoError THEN c
        ELSE IF cc.raised # NoError THEN cc
        ELSE IF wd.raised # NoError THEN wd
        ELSE IF wc.raised # NoError THEN wc
        ELSE Ok([id |-> alignment.id,
                 n_model_frames |-> alignment.n_model_frames,
                 n_audio_samples |-> alignment.n_audio_samples,
                 sampling_rate |-> alignment.sampling_rate,
                 partition_score |-> alignment.partition_score,
                 recognised |-> alignment.recognised,
                 chars |-> c.value, chars_cleaned |-> cc.value,
                 words |-> wd.value, words_cleaned |-> wc.value])

(* ------------------- json.dumps / json.load as text ------------------- *)

\* a segment entry on disk: its label as UTF-8 bytes, numbers as they are
\* (Python's float repr reads back as the same float)
DumpEntry(d) ==
    [k \in DOMAIN d |-> IF k = "label" THEN Utf8Encode(d[k]) ELSE d[k]]

\* json.dumps(meta, ensure_ascii=False) written through a UTF-8 file
DumpRecord(meta) ==
    [f \in DOMAIN meta |->
        IF f \in StringFields THEN Utf8Encode(meta[f])
        ELSE IF f \in CollFields
             THEN [i \in DOMAIN meta[f] |-> DumpEntry(meta[f][i])]
        ELSE meta[f]]

LoadEntry(d, enc) ==
    [k \in DOMAIN d |-> IF k = "label" THEN DecodeText(d[k], enc) ELSE d[k]]

\* json.load of a file opened with encoding enc
LoadRecord(body, enc) ==
    [f \in DOMAIN body |->
        IF f \in StringFields THEN DecodeText(body[f], enc)
        ELSE IF f \in CollFields
             THEN [i \in DOMAIN body[f] |-> LoadEntry(body[f][i], enc)]
        ELSE body[f]]

(* --------------------------- read_alignment --------------------------- *)

\* read_alignment.rescale
read_rescale(alignment, n_seconds) ==
    seconds_to_model_frames(alignment, n_seconds)

\* read_alignment.dict_to_segment: the keyword arguments are evaluated in the
\* order start, end, label, score, each subscript before the call around it
dict_to_segment(alignment, d) ==
    IF "start" \notin DOMAIN d THEN Raise("KeyError", "start")
    ELSE LET s == read_rescale(alignment, d["start"])
         IN  IF s.raised # NoError THEN s
             ELSE IF "end" \notin DOMAIN d THEN Raise("KeyError", "end")
             ELSE LET e == read_rescale(alignment, d["end"])
                  IN  IF e.raised # NoError THEN e
                      ELSE IF "label" \notin DOMAIN d
                           THEN Raise("KeyError", "label")
                      ELSE IF "score" \notin DOMAIN d
                           THEN Raise("KeyError", "score")
                      ELSE Ok(Segment(s.value, e.value, d["label"], d["score"]))

RECURSIVE read_segments(_, _)
\* [dict_to_segment(d) for d in entries]
read_segments(alignment, entries) ==
    IF entries = <<>> THEN Ok(<<>>)
    ELSE LET x == dict_to_segment(alignment, Head(entries))
         IN  IF x.raised # NoError THEN x
             ELSE LET r == read_segments(alignment, Tail(entries))
                  IN  IF r.raised # NoError THEN r
                      ELSE Ok(<<x.value>> \o r.value)

\* a variant that passes sampling_rate and n_audio_samples the other way round
read_construct_swapped(d) ==
    Alignment(d["id"], <<>>, d["recognised"], <<>>, <<>>, <<>>, <<>>, <<>>,
              <<>>, d["n_model_frames"], d["sampling_rate"],
              d["n_audio_samples"], d["partition_score"])

\* the Alignment(...) call of read_alignment: empty arrays, empty collections
read_construct(d) ==
    Alignment(d["id"], <<>>, d["recognised"], <<>>, <<>>, <<>>, <<>>, <<>>,
              <<>>, d["n_model_frames"], d["n_audio_samples"],
              d["sampling_rate"], d["partition_score"])

\* the order in which read_alignment fills the collections
FillOrder == <<"chars_cleaned", "chars", "words_cleaned", "words">>

RECURSIVE FirstMissing(_, _)
\* the first key of `keys` that d lacks, "" when it has them all
FirstMissing(keys, d) ==
    IF keys = <<>> THEN ""
    ELSE IF Head(keys) \notin DOMAIN d THEN Head(keys)
    ELSE FirstMissing(Tail(keys), d)

RECURSIVE read_fill(_, _, _)
\* the four assignments to alignment.<collection>, from the k-th on; `local`
\* is the alignment object as it stands when the function ends or raises
read_fill(alignment, d, k) ==
    IF k > Len(FillOrder) THEN [raised |-> NoError, local |-> alignment]
    ELSE IF FillOrder[k] \notin DOMAIN d
         THEN [raised |-> Error("KeyError", FillOrder[k]), local |-> alignment]
    ELSE LET r == read_segments(alignment, d[FillOrder[k]])
         IN  IF r.raised # NoError
             THEN [raised |-> r.raised, local |-> alignment]
             ELSE read_fill([alignment EXCEPT ![FillOrder[k]] = r.value],
                            d, k + 1)

\* read_alignment from the loaded dict on. A call that raises returns nothing.
read_loaded(d) ==
    LET m == FirstMissing(ScalarFields, d)
    IN  IF m # ""
        THEN [raised |-> Error("KeyError", m), returned |-> NoValue,
              local |-> NoValue]
        ELSE LET r == read_fill(read_construct(d), d, 1)
             IN  [raised |-> r.raised,
                  returned |-> IF r.raised = NoError THEN r.local ELSE NoValue,
                  local |-> r.local]

(* ------------------------------ storage ------------------------------- *)

EmptyFile == [kind |-> "empty"]

GarbledFile == [kind |-> "garbled"]

JsonFile(body) == [kind |-> "json", body |-> body]

\* a directory and the directories above it
Prefixes(dir) ==
    {[anchor |-> dir.anchor, parts |-> SubSeq(dir.parts, 1, k)] :
        k \in 1..Len(dir.parts)}

\* a variant without exist_ok: it raises when the directory is there already
mkdir_parents_no_exist_ok(ds, fs, dir) ==
    IF dir \in DOMAIN fs \/ dir \in ds
    THEN [raised |-> Error("FileExistsError", ""), dirs |-> ds]
    ELSE IF Prefixes(dir) \cap DOMAIN fs # {}
         THEN [raised |-> Error("NotADirectoryError", ""), dirs |-> ds]
    ELSE [raised |-> NoError, dirs |-> ds \cup Prefixes(dir)]

\* dir.mkdir(parents=True, exist_ok=True): raises when dir or a directory
\* above it is a file, and then creates nothing
mkdir_parents(ds, fs, dir) ==
    IF dir \in DOMAIN fs THEN [raised |-> Error("FileExistsError", ""), dirs |-> ds]
    ELSE IF Prefixes(dir) \cap DOMAIN fs # {}
         THEN [raised |-> Error("NotADirectoryError", ""), dirs |-> ds]
    ELSE [raised |-> NoError, dirs |-> ds \cup Prefixes(dir)]

PutFile(fs, loc, content) ==
    [l \in DOMAIN fs \cup {loc} |-> IF l = loc THEN content ELSE fs[l]]

\* open(filename, "w", encoding="utf8"): creates the file or truncates it
open_w(ds, fs, loc) ==
    IF loc \in ds THEN [raised |-> Error("IsADirectoryError", ""), files |-> fs]
    ELSE [raised |-> NoError, files |-> PutFile(fs, loc, EmptyFile)]

\* open(filename, "r") and json.load: the text is decoded with encoding enc
open_load(ds, fs, enc, loc) ==
    IF loc \in ds THEN Raise("IsADirectoryError", "")
    ELSE IF loc \notin DOMAIN fs THEN Raise("FileNotFoundError", "")
    ELSE IF fs[loc].kind # "json" THEN Raise("JSONDecodeError", "")
    ELSE Ok(LoadRecord(fs[loc].body, enc))

Result(r, rt, lc) == [raised |-> r, returned |-> rt, local |-> lc]

\* a variant that fills in a default for a key the record lacks
read_alignment_defaults(ds, fs, enc, alignments_dir, alignment_id) ==
    LET o == open_load(ds, fs, enc,
                       alignment_filename(alignments_dir, alignment_id))
        dflt(f) == IF f \in CollFields \/ f \in StringFields THEN <<>> ELSE 1
    IN  IF o.raised # NoError THEN Result(o.raised, NoValue, NoValue)
        ELSE read_loaded([f \in RecordFields |->
                IF f \in DOMAIN o.value THEN o.value[f] ELSE dflt(f)])

\* a variant that hands back the alignment object as far as it was filled
read_alignment_partial(ds, fs, enc, alignments_dir, alignment_id) ==
    LET o == open_load(ds, fs, enc,
                       alignment_filename(alignments_dir, alignment_id))
    IN  IF o.raised # NoError THEN Result(o.raised, NoValue, NoValue)
        ELSE LET r == read_loaded(o.value)
             IN  Result(r.raised, r.local, r.local)

\* read_alignment(alignments_dir, alignment_id) on the store (ds, fs)
read_alignment(ds, fs, enc, alignments_dir, alignment_id) ==
    LET o == open_load(ds, fs, enc,
                       alignment_filename(alignments_dir, alignment_id))
    IN  IF o.raised # NoError THEN Result(o.raised, NoValue, NoValue)
        ELSE read_loaded(o.value)

Stored(r, ds, fs) == [raised |-> r, dirs |-> ds, files |-> fs]

\* a variant that opens the file before it builds the record
write_alignment_open_first(ds, fs, output_path, id, alignment) ==
    LET filename == alignment_filename(output_path, id)
        mk   == mkdir_parents(ds, fs, PathParent(filename))
        op   == open_w(mk.dirs, fs, filename)
        meta == alignment_meta(alignment)
    IN  IF mk.raised # NoError THEN Stored(mk.raised, ds, fs)
        ELSE IF op.raised # NoError THEN Stored(op.raised, mk.dirs, fs)
        ELSE IF meta.raised # NoError THEN Stored(meta.raised, mk.dirs, op.files)
        ELSE Stored(NoError, mk.dirs,
                    PutFile(op.files, filename, JsonFile(DumpRecord(meta.value))))

\* write_alignment(output_path, id, alignment) on the store (ds, fs): the
\* record is built first, then the parent directories, then the file
write_alignment(ds, fs, output_path, id, alignment) ==
    LET meta     == alignment_meta(alignment)
        filename == alignment_filename(output_path, id)
        mk       == mkdir_parents(ds, fs, PathParent(filename))
        op       == open_w(mk.dirs, fs, filename)
    IN  IF meta.raised # NoError THEN Stored(meta.raised, ds, fs)
        ELSE IF mk.raised # NoError THEN Stored(mk.raised, ds, fs)
        ELSE IF op.raised # NoError THEN Stored(op.raised, mk.dirs, fs)
        ELSE Stored(NoError, mk.dirs,
                    PutFile(op.files, filename, JsonFile(DumpRecord(meta.value))))

(* ------------------------------ inputs -------------------------------- *)

\* the storage root of the store model, "out"
Root == ParsePath(<<"o", "u", "t">>)

IdA == <<"a">>

IdDotA == <<".", "/", "a">>

IdBA == <<"b", "/", "a">>

\* an id whose record lies under the location of IdA's record
IdUnderA == <<"a", ".", "j", "s", "o", "n", "/", "b">>

Ids == {IdA, IdBA}

ParIds == {IdA, IdDotA, IdBA, IdUnderA}

\* data strings: "a", "b", "ab" and the non-ASCII "ü" (U+00FC)
StrA == <<97>>

StrB == <<98>>

StrAB == <<97, 98>>

StrUuml == <<252>>

Seg(s, e, label, score) == Segment(RatInt(s), RatInt(e), label, score)

NoSegments ==
    [chars |-> <<>>, chars_cleaned |-> <<>>, words |-> <<>>,
     words_cleaned |-> <<>>]

\* words are contiguous and in order, chars are not in order of start
WithUmlaut ==
    [chars         |-> <<Seg(1, MaxFrames, StrUuml, 7), Seg(0, 1, StrA, 9)>>,
     chars_cleaned |-> <<Seg(0, 1, StrA, 9)>>,
     words         |-> <<Seg(0, 1, StrAB, 9), Seg(1, MaxFrames, StrUuml, 8)>>,
     words_cleaned |-> <<Seg(1, MaxFrames, StrUuml, 8)>>]

AsciiOnly ==
    [chars         |-> <<Seg(1, MaxFrames, StrB, 7), Seg(0, 1, StrA, 9)>>,
     chars_cleaned |-> <<Seg(1, MaxFrames, StrB, 7)>>,
     words         |-> <<Seg(0, MaxFrames, StrAB, 8)>>,
     words_cleaned |-> <<Seg(0, MaxFrames, StrAB, 8)>>]

Collections == {NoSegments, WithUmlaut, AsciiOnly}

\* (n_model_frames, n_audio_samples, sampling_rate): all positive, or one zero
Metadata ==
    {<<MaxFrames, MaxSamples, MaxRate>>, <<0, MaxSamples, MaxRate>>,
     <<MaxFrames, 0, MaxRate>>, <<MaxFrames, MaxSamples, 0>>}

\* an Alignment as the aligner produces it: frame units, raw arrays filled
Fresh(m, c) ==
    Alignment(StrA, <<1>>, StrAB, <<2>>, <<3>>, c.chars_cleaned, c.chars,
              c.words_cleaned, c.words, m[1], m[2], m[3], 5)

Alignments == {Fresh(m, c) : m \in Metadata, c \in {NoSegments, WithUmlaut}}

ParAlignments ==
    {Fresh(<<MaxFrames, MaxSamples, MaxRate>>, c) : c \in Collections}
    \cup {Fresh(<<0, MaxSamples, MaxRate>>, WithUmlaut)}

\* the record of a non-degenerate alignment with segments in every collection
GoodRecord == alignment_meta(Fresh(<<MaxFrames, MaxSamples, MaxRate>>, WithUmlaut)).value

Without(f, k) == [x \in DOMAIN f \ {k} |-> f[x]]

\* records another producer may have left: one lacking a field, one whose
\* first entry of a collection lacks a key, one with a zero in its metadata
ForeignRecords ==
    {Without(GoodRecord, f) : f \in RecordFields}
    \cup {[GoodRecord EXCEPT ![c] = [@ EXCEPT ![1] = Without(@, k)]] :
            c \in CollFields, k \in {"end", "score"}}
    \cup {[GoodRecord EXCEPT !.n_model_frames = 0],
          Without(Without(GoodRecord, "sampling_rate"), "id"),
          Without([GoodRecord EXCEPT !.n_model_frames = 0], "words")}

(* --------------------------- the store model -------------------------- *)

Writers == {1, 2}

NoCall ==
    [op |-> "none", id |-> <<>>, al |-> NoValue, raised |-> NoError,
     returned |-> NoValue, local |-> NoValue]

Call(op, id, al, r) ==
    [op |-> op, id |-> id, al |-> al, raised |-> r.raised,
     returned |-> r.returned, local |-> r.local]

IdleWriter ==
    [pc |-> "idle", id |-> <<>>, al |-> NoValue, meta |-> NoValue,
     raised |-> NoError]

NoProbe == [pc |-> "none"]

Init ==
    /\ locale \in Locales
    /\ dirs = {}
    /\ files = [l \in {} |-> EmptyFile]
    /\ last = NoCall
    /\ w = [p \in Writers |-> IdleWriter]
    /\ probe = NoProbe

\* a call of alignment_meta(al)
AlignmentMeta(al) ==
    LET m == alignment_meta(al)
    IN  /\ last' = Call("meta", <<>>, al, Result(m.raised, m.value, NoValue))
        /\ UNCHANGED <<locale, dirs, files, w, probe>>

\* a call of write_alignment(Root, id, al)
WriteAlignment(id, al) ==
    LET r == write_alignment(dirs, files, Root, id, al)
    IN  /\ dirs' = r.dirs
        /\ files' = r.files
        /\ last' = Call("write", id, al, Result(r.raised, NoValue, NoValue))
        /\ UNCHANGED <<locale, w, probe>>

\* a call of read_alignment(Root, id)
ReadAlignment(id) ==
    /\ last' = Call("read", id, NoValue,
                    read_alignment(dirs, files, locale, Root, id))
    /\ UNCHANGED <<locale, dirs, files, w, probe>>

\* another producer leaves a record at the location of id
ForeignPut(id, rec) ==
    LET loc == alignment_filename(Root, id)
        mk  == mkdir_parents(dirs, files, PathParent(loc))
    IN  /\ mk.raised = NoError
        /\ loc \notin mk.dirs
        /\ dirs' = mk.dirs
        /\ files' = PutFile(files, loc, JsonFile(DumpRecord(rec)))
        /\ last' = Call("put", id, NoValue, Result(NoError, NoValue, NoValue))
        /\ UNCHANGED <<locale, w, probe>>

Next ==
    \/ \E al \in Alignments : AlignmentMeta(al)
    \/ \E id \in Ids, al \in Alignments : WriteAlignment(id, al)
    \/ \E id \in Ids : ReadAlignment(id)
    \/ \E rec \in ForeignRecords : ForeignPut(IdA, rec)

Spec == Init /\ [][Next]_vars

(* ------------------ two write_alignment calls at once ------------------ *)

\* the call starts: alignment_meta builds the record, or raises
ParEncode(p, id, al) ==
    LET m == alignment_meta(al)
    IN  /\ w[p].pc = "idle"
        /\ w' = [w EXCEPT ![p] =
                    [pc |-> IF m.raised = NoError THEN "encoded" ELSE "raised",
                     id |-> id, al |-> al, meta |-> m.value,
                     raised |-> m.raised]]
        /\ UNCHANGED <<locale, dirs, files, last, probe>>

\* filename.parent.mkdir(parents=True, exist_ok=True)
ParMkdir(p) ==
    LET mk == mkdir_parents(dirs, files,
                            PathParent(alignment_filename(Root, w[p].id)))
    IN  /\ w[p].pc = "encoded"
        /\ dirs' = mk.dirs
        /\ w' = [w EXCEPT ![p].pc = IF mk.raised = NoError THEN "made"
                                     ELSE "raised",
                          ![p].raised = mk.raised]
        /\ UNCHANGED <<locale, files, last, probe>>

\* open(filename, "w", encoding="utf8")
ParOpen(p) ==
    LET op == open_w(dirs, files, alignment_filename(Root, w[p].id))
    IN  /\ w[p].pc = "made"
        /\ files' = op.files
        /\ w' = [w EXCEPT ![p].pc = IF op.raised = NoError THEN "open"
                                     ELSE "raised",
                          ![p].raised = op.raised]
        /\ UNCHANGED <<locale, dirs, last, probe>>

\* f.write(json.dumps(...)) and the close: the text goes to offset 0 of the
\* file. If another call has written to the file since this one truncated it,
\* what is left is this call's text, followed by the rest of the other's where
\* that was longer (the model does not carry the lengths)
ParDump(p) ==
    LET loc  == alignment_filename(Root, w[p].id)
        mine == JsonFile(DumpRecord(w[p].meta))
    IN  /\ w[p].pc = "open"
        /\ \/ files' = PutFile(files, loc, mine)
           \/ /\ files[loc] \notin {EmptyFile, mine}
              /\ files' = PutFile(files, loc, GarbledFile)
        /\ w' = [w EXCEPT ![p].pc = "done"]
        /\ UNCHANGED <<locale, dirs, last, probe>>

ParFinished == \A p \in Writers : w[p].pc \in {"done", "raised"}

\* read_alignment(Root, id), once both calls have ended
ParRead(id) ==
    /\ ParFinished
    /\ last' = Call("read", id, NoValue,
                    read_alignment(dirs, files, locale, Root, id))
    /\ UNCHANGED <<locale, dirs, files, w, probe>>

ParNext ==
    \/ \E p \in Writers, id \in ParIds, al \in ParAlignments : ParEncode(p, id, al)
    \/ \E p \in Writers : ParMkdir(p)
    \/ \E p \in Writers : ParOpen(p)
    \/ \E p \in Writers : ParDump(p)
    \/ \E id \in ParIds : ParRead(id)

SpecPar == Init /\ [][ParNext]_vars

(* ------------------- alignment_filename on its own -------------------- *)

\* "audio/one.mp3"
ExampleId ==
    <<"a", "u", "d", "i", "o", "/", "o", "n", "e", ".", "m", "p", "3">>

\* "out/audio/one.mp3.json"
ExampleLocation ==
    [anchor |-> "",
     parts  |-> <<<<"o", "u", "t">>, <<"a", "u", "d", "i", "o">>,
                  <<"o", "n", "e", ".", "m", "p", "3", ".", "j", "s", "o", "n">>>>]

\* roots "out", "/" and "/a"
PathRoots == {Root, ParsePath(<<"/">>), ParsePath(<<"/", "a">>)}

PathIds == SeqsUpTo(PathChars, MaxIdLen) \cup {ExampleId}

Quiet ==
    /\ locale = "utf-8"
    /\ dirs = {}
    /\ files = [l \in {} |-> EmptyFile]
    /\ last = NoCall
    /\ w = [p \in Writers |-> IdleWriter]

PathInit ==
    /\ Quiet
    /\ \E r \in PathRoots, i1 \in PathIds, i2 \in PathIds :
          probe = [pc |-> "ids", root |-> r, id1 |-> i1, id2 |-> i2,
                   loc1 |-> NoValue, loc2 |-> NoValue]

\* alignment_filename(root, id1) and alignment_filename(root, id2)
Locate ==
    /\ probe.pc = "ids"
    /\ probe' = [probe EXCEPT !.pc = "located",
                    !.loc1 = alignment_filename(probe.root, probe.id1),
                    !.loc2 = alignment_filename(probe.root, probe.id2)]
    /\ UNCHANGED <<locale, dirs, files, last, w>>

PathNext == Locate

SpecPath == PathInit /\ [][PathNext]_vars

(* ----------------------- the rescaling on its own --------------------- *)

RescaleInit ==
    /\ Quiet
    /\ \E nmf \in 1..MaxFrames, nas \in 1..MaxSamples, sr \in 1..MaxRate :
         \E f \in 0..nmf :
            probe = [pc |-> "frame", al |-> Fresh(<<nmf, nas, sr>>, NoSegments),
                     f |-> f, seconds |-> NoValue, back |-> NoValue]

\* the rescale of alignment_meta, on the alignment being written
RescaleToSeconds ==
    /\ probe.pc = "frame"
    /\ probe' = [probe EXCEPT !.pc = "seconds",
                    !.seconds = meta_rescale(probe.al, RatInt(probe.f)).value]
    /\ UNCHANGED <<locale, dirs, files, last, w>>

\* the rescale of read_alignment, on the alignment it constructs from the
\* record that alignment_meta made of the written one
RescaleToFrames ==
    LET d == LoadRecord(DumpRecord(alignment_meta(probe.al).value), locale)
    IN  /\ probe.pc = "seconds"
        /\ probe' = [probe EXCEPT !.pc = "frames",
                        !.back = read_rescale(read_construct(d),
                                              probe.seconds).value]
        /\ UNCHANGED <<locale, dirs, files, last, w>>

RescaleNext == RescaleToSeconds \/ RescaleToFrames

SpecRescale == RescaleInit /\ [][RescaleNext]_vars

(* ------------------------------ properties ---------------------------- *)

\* a and b hold the same data: the scalars, and in each collection the same
\* number of segments with the same label, score, start and end
SameSegments(xs, ys) ==
    /\ Len(xs) = Len(ys)
    /\ \A i \in 1..Len(xs) :
          /\ xs[i].label = ys[i].label
          /\ xs[i].score = ys[i].score
          /\ xs[i].start = ys[i].start
          /\ xs[i].end = ys[i].end

SameData(a, b) ==
    /\ \A f \in {"id", "n_model_frames", "n_audio_samples", "sampling_rate",
                 "partition_score", "recognised"} : a[f] = b[f]
    /\ \A c \in CollFields : SameSegments(a[c], b[c])

\* the call that has just returned read the record of last.id
LastLocation == alignment_filename(Root, last.id)

\* C1: a read_alignment(root, id) that follows a successful
\* write_alignment(root, id, A) of a non-degenerate A returns A's scalars and,
\* in each collection, A's segments (label, score, start, end).
C1_RoundTrip ==
    [][(/\ last.op = "write" /\ last.raised = NoError /\ ~Degenerate(last.al)
        /\ last'.op = "read" /\ last'.id = last.id)
       => (/\ last'.raised = NoError
           /\ SameData(last.al, last'.returned))]_vars

\* the same round trip where the reader's locale encoding is UTF-8
RoundTripUnderUtf8 ==
    [][(/\ locale = "utf-8"
        /\ last.op = "write" /\ last.raised = NoError /\ ~Degenerate(last.al)
        /\ last'.op = "read" /\ last'.id = last.id)
       => (/\ last'.raised = NoError
           /\ SameData(last.al, last'.returned))]_vars

\* C2: alignment_meta, write_alignment and read_alignment fail with
\* DegenerateAlignment on an alignment or record with a zero in
\* n_model_frames, n_audio_samples or sampling_rate, and yield nothing.
C2_DegenerateRejected ==
    /\ (last.op \in {"meta", "write"} /\ Degenerate(last.al))
          => last.raised.kind = "DegenerateAlignment"
    /\ (last.op = "read" /\ last.local # NoValue /\ Degenerate(last.local))
          => (last.raised.kind = "DegenerateAlignment" /\ last.returned = NoValue)

\* the record read_alignment has just read lacks a required field
ReadLackingField ==
    /\ last.op = "read"
    /\ LastLocation \in DOMAIN files
    /\ files[LastLocation].kind = "json"
    /\ RecordFields \ DOMAIN files[LastLocation].body # {}

\* C3, as claimed: reading a record that lacks a required field fails with a
\* MalformedRecord error naming a missing field.
C3_MalformedRecord ==
    ReadLackingField
       => (/\ last.raised.kind = "MalformedRecord"
           /\ last.raised.arg \in RecordFields \ DOMAIN files[LastLocation].body
           /\ last.returned = NoValue)

\* C3, amended: reading a record that lacks a required field returns no
\* Alignment and raises KeyError with the first missing field, in the order
\* read_alignment reads the fields, unless a collection read before that field
\* has already failed (a segment key missing, or the rescaling's error).
C3_KeyErrorNamesField ==
    ReadLackingField
       => LET missing == FirstMissing(ScalarFields \o FillOrder,
                                      files[LastLocation].body)
          IN  /\ last.returned = NoValue
              /\ \/ last.raised = Error("KeyError", missing)
                 \/ /\ missing \in CollFields
                    /\ \/ last.raised.kind = "DegenerateAlignment"
                       \/ /\ last.raised.kind = "KeyError"
                          /\ last.raised.arg \in SegmentKeys

C3_Witness ==
    /\ ReadLackingField
    /\ "sampling_rate" \notin DOMAIN files[LastLocation].body
    /\ "id" \in DOMAIN files[LastLocation].body
    /\ last.raised = Error("KeyError", "sampling_rate")

\* C4, as claimed: two distinct id strings never map to the same location.
C4_NoCollision ==
    (probe.pc = "located" /\ probe.id1 # probe.id2) => probe.loc1 # probe.loc2

\* C4, amended: ("out", "audio/one.mp3") maps to "out/audio/one.mp3.json";
\* two ids map to the same location exactly when root / id1 and root / id2
\* are the same path; so two ids that do not start with "/" and differ in
\* their components other than the empty ones and "." never collide; and for
\* an id that does not start with "/" and has such a component the location
\* is the root, the id's components but the last, and the last with ".json".
C4_CollideOnlyAsSamePath ==
    probe.pc = "located"
       => /\ (probe.root = Root /\ probe.id1 = ExampleId)
                => probe.loc1 = ExampleLocation
          /\ (probe.loc1 = probe.loc2)
                <=> (JoinPath(probe.root, probe.id1)
                       = JoinPath(probe.root, probe.id2))
          /\ (/\ ParsePath(probe.id1).anchor = ""
              /\ ParsePath(probe.id2).anchor = ""
              /\ ParsePath(probe.id1).parts # ParsePath(probe.id2).parts)
                => probe.loc1 # probe.loc2
          /\ (ParsePath(probe.id1).anchor = "" /\ ParsePath(probe.id1).parts # <<>>)
                => LET ps == ParsePath(probe.id1).parts
                   IN  /\ probe.loc1.anchor = probe.root.anchor
                       /\ probe.loc1.parts
                             = probe.root.parts \o Front(ps)
                                 \o <<Last(ps) \o JsonSuffix>>

C4_Witness ==
    /\ probe.pc = "located"
    /\ probe.id1 = <<"a", "/", "a">>
    /\ probe.id2 = <<"a">>
    /\ probe.loc1 # probe.loc2

\* C5: for a non-degenerate alignment, each collection of alignment_meta's
\* record has one entry per segment, in the segments' order, with the
\* segment's label and score and its rescaled start and end; where a segment
\* starts at the end of the one before it, so do the entries.
C5_OrderPreserved ==
    (last.op = "meta" /\ ~Degenerate(last.al))
       => /\ last.raised = NoError
          /\ \A c \in CollFields :
                LET segs == last.al[c]
                    out  == last.returned[c]
                IN  /\ Len(out) = Len(segs)
                    /\ \A i \in 1..Len(segs) :
                          /\ out[i].label = segs[i].label
                          /\ out[i].score = segs[i].score
                          /\ out[i].start = meta_rescale(last.al, segs[i].start).value
                          /\ out[i].end = meta_rescale(last.al, segs[i].end).value
                    /\ \A i \in 1..(Len(segs) - 1) :
                          segs[i + 1].start = segs[i].end
                             => out[i + 1].start = out[i].end

C5_Witness ==
    /\ last.op = "meta"
    /\ ~Degenerate(last.al)
    /\ Len(last.al.chars) = 2
    /\ last.al.chars[2].start[1] < last.al.chars[1].start[1]
    /\ last.al.words[2].start = last.al.words[1].end
    /\ Len(last.returned.chars) = 2

\* C6: with all three metadata values positive and f in 0..n_model_frames,
\* the rescale of read_alignment applied to the rescale of alignment_meta of
\* f is f.
C6_RescaleInverse ==
    probe.pc = "frames" => probe.back = RatInt(probe.f)

C6_Witness ==
    /\ probe.pc = "frames"
    /\ probe.f > 0
    /\ probe.seconds[2] # 1
    /\ probe.al.n_audio_samples # probe.al.sampling_rate

\* C7: the record alignment_meta makes has exactly the ten fields, whatever
\* the raw arrays hold, and an Alignment read_alignment returns has its three
\* raw arrays empty.
C7_NoRawArrays ==
    /\ (last.op = "meta" /\ last.raised = NoError)
          => DOMAIN last.returned = RecordFields
    /\ (last.op = "read" /\ last.returned # NoValue)
          => /\ last.returned.log_probs = <<>>
             /\ last.returned.trellis = <<>>
             /\ last.returned.path = <<>>

C7_Witness ==
    /\ last.op = "read"
    /\ last.returned # NoValue
    /\ last.returned.words # <<>>
    /\ last.returned.trellis = <<>>
    /\ DOMAIN files[LastLocation].body = RecordFields

\* C8: a read_alignment that fails, at whatever step, hands the caller the
\* error and no Alignment; one that succeeds hands back the alignment with
\* all four collections filled from the record.
C8_AllOrNothing ==
    last.op = "read"
       => /\ last.raised # NoError => last.returned = NoValue
          /\ last.raised = NoError
                => /\ last.returned = last.local
                   /\ \A c \in CollFields :
                         Len(last.returned[c])
                            = Len(files[LastLocation].body[c])

C8_Witness ==
    /\ last.op = "read"
    /\ last.raised.kind = "KeyError"
    /\ last.local # NoValue
    /\ last.local.chars_cleaned # <<>>
    /\ last.local.chars # <<>>
    /\ last.local.words_cleaned # <<>>
    /\ last.local.words = <<>>
    /\ last.returned = NoValue

\* C9: a write_alignment whose alignment_meta raises leaves the store as it
\* was (no directory made, no file created or truncated); one that completes
\* leaves the complete ten-field record of its alignment at the location.
C9_NoPartialWrite ==
    [][last'.op = "write"
       => LET loc  == alignment_filename(Root, last'.id)
              meta == alignment_meta(last'.al)
          IN  /\ meta.raised # NoError
                    => (last'.raised = meta.raised /\ dirs' = dirs /\ files' = files)
              /\ last'.raised = NoError
                    => /\ loc \in DOMAIN files'
                       /\ files'[loc] = JsonFile(DumpRecord(meta.value))
                       /\ DOMAIN files'[loc].body = RecordFields
                       /\ PathParent(loc) \in dirs']_vars

C9_Witness ==
    /\ last.op = "write"
    /\ last.raised.kind = "DegenerateAlignment"
    /\ LastLocation \in DOMAIN files
    /\ files[LastLocation].kind = "json"
    /\ PathParent(LastLocation) \in dirs

\* C10: after two write_alignment calls with different ids, interleaved in
\* any way, have both completed, read_alignment of either id returns the data
\* of the alignment written under that id.
C10_Independent ==
    (/\ \A p \in Writers : w[p].pc = "done"
     /\ w[1].id # w[2].id
     /\ last.op = "read")
       => \A p \in Writers :
             last.id = w[p].id
                => (/\ last.raised = NoError
                    /\ SameData(w[p].al, last.returned))

\* the records of the two ids lie at different locations, neither inside a
\* directory that is the other's location
Apart(id1, id2) ==
    LET l1 == alignment_filename(Root, id1)
        l2 == alignment_filename(Root, id2)
    IN  /\ l1 # l2
        /\ l1 \notin Prefixes(PathParent(l2))
        /\ l2 \notin Prefixes(PathParent(l1))

\* C10, amended: when the two ids' locations are apart, any interleaving of
\* the two calls leaves a call whose alignment_meta did not raise completed,
\* its location holding the complete record of its own alignment, and
\* read_alignment of its id returns what it returns of that record alone:
\* the alignment's data where the reader decodes the file as UTF-8.
C10_IndependentWhenApart ==
    (ParFinished /\ last.op = "read" /\ Apart(w[1].id, w[2].id))
       => \A p \in Writers :
             (last.id = w[p].id /\ alignment_meta(w[p].al).raised = NoError)
                => LET body == DumpRecord(alignment_meta(w[p].al).value)
                       lone == read_loaded(LoadRecord(body, locale))
                   IN  /\ w[p].pc = "done"
                       /\ files[LastLocation] = JsonFile(body)
                       /\ last.raised = lone.raised
                       /\ last.returned = lone.returned
                       /\ (locale = "utf-8" /\ ~Degenerate(w[p].al))
                             => (/\ last.raised = NoError
                                 /\ SameData(w[p].al, last.returned))

C10_Witness ==
    /\ \A p \in Writers : w[p].pc = "done"
    /\ w[1].id = IdA
    /\ w[2].id = IdBA
    /\ w[1].al # w[2].al
    /\ last.op = "read"
    /\ last.id = IdBA
    /\ last.returned # NoValue
    /\ last.returned.words # <<>>
    /\ SameData(w[2].al, last.returned)

====
